---------------------------- MODULE Spec2Model ----------------------------
(***************************************************************************)
(* Renom: renaming the components of an Unreal Engine project.             *)
(*                                                                         *)
(* Five state machines share this module.                                  *)
(*   EngineSpec  the transactional change engine (execute / revert) over a *)
(*               small filesystem, with the Change variants of the change  *)
(*               model and their inverses.                                 *)
(*   Spec        the workflow orchestrators (rename_project, its           *)
(*               interactive variant, rename_plugin, rename_target and the *)
(*               command line entry point), step by step, over a disk of   *)
(*               probed projects.                                          *)
(*   CliSpec     the command line: parse_args over bounded argument lists  *)
(*               and the dispatch main makes on its result.                *)
(*   PromptSpec  the interactive new-name prompt: the chain of validators  *)
(*               applied to bounded candidate strings.                     *)
(*   WizardSpec  the wizard session: select a workflow, run it, ask        *)
(*               whether to start another, over a bounded number of rounds.*)
(***************************************************************************)
EXTENDS Integers, Sequences, FiniteSets, TLC

VARIABLES
    \* ---- engine ----
    fs,          \* the filesystem: path -> node
    fs0,         \* the filesystem when execute was called
    backups,     \* the backup directory: the registry of staged pre-images
    applied,     \* the engine's applied list
    changeset,   \* the changeset given to execute
    attempted,   \* indices of the changeset execute tried to apply, in order
    estate,      \* Idle | Committed | Failed
    eresult,     \* none | Ok | Err : what execute returned
    last_op,     \* none | execute | revert : the engine operation called last
    used,        \* the engine has executed a changeset (single shot)
    reverted,    \* what the last revert found in the applied list
    rattempted,  \* positions of the applied list whose inverse revert tried
    rfailed,     \* positions of the applied list whose inverse failed
    rresult,     \* none | Ok | Err : what the last revert returned
    \* ---- workflows ----
    disk,        \* project root -> probed project on disk
    wf,          \* the workflow running
    pc,          \* its position
    params,      \* the Params given to it
    context,     \* the Context it gathered
    engine,      \* the workflow's Engine instance
    confirmed,   \* the user's answer to "should we revert?"
    result,      \* what the workflow returned
    log,         \* messages logged or printed
    exit_code,   \* the process's exit code (command line entry point)
    \* ---- command line ----
    args,        \* the process's argument list, program name first
    cli_pc,      \* start | parsed | done : main's position
    parsed,      \* what parse_args returned
    ran,         \* the workflows main started, with their inputs
    output,      \* what main printed
    \* ---- the new-name prompt ----
    prompt,      \* project | plugin | target : the workflow asking for a name
    candidate,   \* the text the user submitted
    verdict,     \* none | the validation the chain of validators returned
    \* ---- the wizard session ----
    session,     \* select | run | confirm | ended : the dialogue's position
    selected,    \* the workflow selected in this round of the loop
    started,     \* the workflows started in this session, in order
    answers,     \* the answers to "start a new workflow?", in order
    session_log  \* what the dialogue logged

evars == <<fs, fs0, backups, applied, changeset, attempted, estate, eresult,
           last_op, used, reverted, rattempted, rfailed, rresult>>
wvars == <<disk, wf, pc, params, context, engine, confirmed, result, log, exit_code>>
cvars == <<args, cli_pc, parsed, ran, output>>
pvars == <<prompt, candidate, verdict>>
zvars == <<session, selected, started, answers, session_log>>
vars == <<evars, wvars, cvars, pvars, zvars>>

(***************************************************************************)
(* Bounds                                                                  *)
(***************************************************************************)
MaxChanges == 2

(***************************************************************************)
(* The filesystem of the engine                                            *)
(***************************************************************************)
FilePaths == {"a", "d/c"}
DirPaths == {"d"}
Paths == FilePaths \cup DirPaths

Parent(p) == IF p = "d/c" THEN "d" ELSE "/"
Children(p) == {q \in Paths : Parent(q) = p}

Absent == [kind |-> "absent", data |-> <<>>]
Dir == [kind |-> "dir", data |-> <<>>]
File(bytes) == [kind |-> "file", data |-> bytes]

IsFile(f, p) == f[p].kind = "file"
ParentExists(f, p) == Parent(p) = "/" \/ f[Parent(p)].kind = "dir"

\* File contents and the literals of ReplaceInFile, over a two-letter alphabet.
Tokens == {<<"x">>, <<"y">>, <<"x", "x">>}
NewContents == {<<"y">>, <<"x", "y", "x">>}
InitialFs ==
    {f \in [Paths -> {Absent, Dir, File(<<"x", "y">>), File(<<"y">>), File(<<"y", "y">>)}] :
        /\ f["a"] \in {File(<<"x", "y">>), File(<<"y">>)}
        /\ f["d"] \in {Absent, Dir}
        /\ f["d/c"] \in {Absent, File(<<"y", "y">>)}
        /\ f["d/c"] # Absent => f["d"] = Dir}


(***************************************************************************)
(* The change model: the Change variants, what each needs to apply, what   *)
(* it does, and its inverse.                                               *)
(***************************************************************************)
RenameFile(from, to) == [op |-> "RenameFile", from |-> from, to |-> to]
CopyFile(from, to) == [op |-> "CopyFile", from |-> from, to |-> to]
DeleteFile(path) == [op |-> "DeleteFile", path |-> path]
SetFileContents(path, new_contents) ==
    [op |-> "SetFileContents", path |-> path, new_contents |-> new_contents]
ReplaceInFile(path, needle, replacement) ==
    [op |-> "ReplaceInFile", path |-> path, needle |-> needle, replacement |-> replacement]
CreateDirectory(path) == [op |-> "CreateDirectory", path |-> path]
\* inverse-only variants
RestoreFile(path, key) == [op |-> "RestoreFile", path |-> path, key |-> key]
RemoveEmptyDirectory(path) == [op |-> "RemoveEmptyDirectory", path |-> path]

Changes ==
    {RenameFile(p, q) : <<p, q>> \in {pq \in FilePaths \X FilePaths : pq[1] # pq[2]}}
    \cup {CopyFile(p, q) : <<p, q>> \in {pq \in FilePaths \X FilePaths : pq[1] # pq[2]}}
    \cup {DeleteFile(p) : p \in FilePaths}
    \cup {SetFileContents(p, n) : <<p, n>> \in FilePaths \X NewContents}
    \cup {ReplaceInFile(p, nr[1], nr[2]) :
            <<p, nr>> \in FilePaths \X {t \in Tokens \X Tokens : t[1] # t[2]}}
    \cup {CreateDirectory(p) : p \in DirPaths}

Changesets == UNION {[1..n -> Changes] : n \in 0..MaxChanges}

\* The Changes that destroy information: the engine stages a backup first.
Destructive == {"DeleteFile", "SetFileContents"}

\* Does s contain the literal t?
Occurs(t, s) == \E i \in 1..(Len(s) - Len(t) + 1) : SubSeq(s, i, i + Len(t) - 1) = t

\* A replacement that takes the needle out and puts nothing in its place.
RECURSIVE ReplaceDropsNeedle(_, _, _)
ReplaceDropsNeedle(s, needle, replacement) ==
    IF needle = <<>> \/ Len(s) < Len(needle) THEN s
    ELSE IF SubSeq(s, 1, Len(needle)) = needle
         THEN ReplaceDropsNeedle(SubSeq(s, Len(needle) + 1, Len(s)), needle, replacement)
         ELSE <<Head(s)>> \o ReplaceDropsNeedle(Tail(s), needle, replacement)

\* All occurrences of the literal needle replaced, leftmost first, not overlapping.
RECURSIVE Replace(_, _, _)
Replace(s, needle, replacement) ==
    IF needle = <<>>
    THEN IF s = <<>> THEN replacement
         ELSE replacement \o <<Head(s)>> \o Replace(Tail(s), needle, replacement)
    ELSE IF Len(s) < Len(needle) THEN s
    ELSE IF SubSeq(s, 1, Len(needle)) = needle
         THEN replacement \o Replace(SubSeq(s, Len(needle) + 1, Len(s)), needle, replacement)
         ELSE <<Head(s)>> \o Replace(Tail(s), needle, replacement)

\* A Change fails (ChangeError) when what it works on is not there.
CanApply(c, f) ==
    CASE c.op \in {"RenameFile", "CopyFile"} -> IsFile(f, c.from) /\ ParentExists(f, c.to)
      [] c.op \in {"DeleteFile", "SetFileContents", "ReplaceInFile"} -> IsFile(f, c.path)
      [] c.op = "CreateDirectory" -> f[c.path].kind = "absent" /\ ParentExists(f, c.path)

\* The filesystem after the Change.
Effect(c, f) ==
    CASE c.op = "RenameFile" -> [f EXCEPT ![c.to] = f[c.from], ![c.from] = Absent]
      [] c.op = "CopyFile" -> [f EXCEPT ![c.to] = f[c.from]]
      [] c.op = "DeleteFile" -> [f EXCEPT ![c.path] = Absent]
      [] c.op = "SetFileContents" -> [f EXCEPT ![c.path] = File(c.new_contents)]
      [] c.op = "ReplaceInFile" ->
            [f EXCEPT ![c.path] = File(Replace(f[c.path].data, c.needle, c.replacement))]
      [] c.op = "CreateDirectory" -> [f EXCEPT ![c.path] = Dir]

\* Every backup staged under one and the same name.
BackupKeyShared(n) == 1

\* The name of the backup the n-th applied Change stages: its index.
BackupKey(n) == n

\* The backup directory after staging the pre-image a destructive Change needs.
Stage(c, f, b, key) ==
    IF c.op \in Destructive
    THEN Append(b, [key |-> key, path |-> c.path, data |-> f[c.path].data])
    ELSE b

\* The pre-image staged under a key (the latest entry of that name).
Staged(b, key) ==
    LET hits == {i \in 1..Len(b) : b[i].key = key}
    IN  b[CHOOSE i \in hits : \A j \in hits : j <= i]

HasStaged(b, key) == \E i \in 1..Len(b) : b[i].key = key

\* Inverse with the literals of a replacement left as they were.
InverseUnswapped(e) ==
    LET c == e.change IN
    CASE c.op = "RenameFile" -> RenameFile(c.to, c.from)
      [] c.op = "CopyFile" -> DeleteFile(c.to)
      [] c.op \in Destructive -> RestoreFile(c.path, e.key)
      [] c.op = "ReplaceInFile" -> ReplaceInFile(c.path, c.needle, c.replacement)
      [] c.op = "CreateDirectory" -> RemoveEmptyDirectory(c.path)

\* The inverse of an applied Change.
Inverse(e) ==
    LET c == e.change IN
    CASE c.op = "RenameFile" -> RenameFile(c.to, c.from)
      [] c.op = "CopyFile" -> DeleteFile(c.to)
      [] c.op \in Destructive -> RestoreFile(c.path, e.key)
      [] c.op = "ReplaceInFile" -> ReplaceInFile(c.path, c.replacement, c.needle)
      [] c.op = "CreateDirectory" -> RemoveEmptyDirectory(c.path)

CanInvert(inv, f, b) ==
    CASE inv.op = "RestoreFile" -> HasStaged(b, inv.key) /\ ParentExists(f, inv.path)
      [] inv.op = "RemoveEmptyDirectory" ->
            f[inv.path].kind = "dir" /\ \A q \in Children(inv.path) : f[q].kind = "absent"
      [] OTHER -> CanApply(inv, f)

InverseEffect(inv, f, b) ==
    CASE inv.op = "RestoreFile" -> [f EXCEPT ![inv.path] = File(Staged(b, inv.key).data)]
      [] inv.op = "RemoveEmptyDirectory" -> [f EXCEPT ![inv.path] = Absent]
      [] OTHER -> Effect(inv, f)

(***************************************************************************)
(* The engine                                                              *)
(***************************************************************************)
\* execute's loop going on to the next Change after a failure.
RECURSIVE ExecuteLoopGoesOn(_, _, _, _)
ExecuteLoopGoesOn(st, cs, i, io_fail) ==
    IF i > Len(cs) THEN st
    ELSE IF i = io_fail \/ ~CanApply(cs[i], st.fs)
    THEN ExecuteLoopGoesOn([st EXCEPT !.ok = FALSE, !.attempted = Append(@, i)],
                           cs, i + 1, io_fail)
    ELSE LET key == BackupKey(Len(st.applied) + 1) IN
         ExecuteLoopGoesOn([fs |-> Effect(cs[i], st.fs),
                            backups |-> Stage(cs[i], st.fs, st.backups, key),
                            applied |-> Append(st.applied, [change |-> cs[i], key |-> key]),
                            attempted |-> Append(st.attempted, i),
                            ok |-> st.ok],
                           cs, i + 1, io_fail)

\* execute's loop from the i-th Change on; io_fail is the Change (0: none) on
\* which the filesystem reports an error although its operands are there.
RECURSIVE ExecuteLoop(_, _, _, _)
ExecuteLoop(st, cs, i, io_fail) ==
    IF i > Len(cs) THEN [st EXCEPT !.ok = TRUE]
    ELSE IF i = io_fail \/ ~CanApply(cs[i], st.fs)
    THEN [st EXCEPT !.ok = FALSE, !.attempted = Append(@, i)]
    ELSE LET key == BackupKey(Len(st.applied) + 1) IN
         ExecuteLoop([fs |-> Effect(cs[i], st.fs),
                      backups |-> Stage(cs[i], st.fs, st.backups, key),
                      applied |-> Append(st.applied, [change |-> cs[i], key |-> key]),
                      attempted |-> Append(st.attempted, i),
                      ok |-> TRUE],
                     cs, i + 1, io_fail)

EngineExecute(cs, io_fail) ==
    ExecuteLoop([fs |-> fs, backups |-> backups, applied |-> applied,
                 attempted |-> <<>>, ok |-> TRUE], cs, 1, io_fail)

\* revert's loop giving up at the first inverse that fails.
RECURSIVE RevertLoopGivesUp(_, _, _, _, _)
RevertLoopGivesUp(st, ap, b, i, io_fail) ==
    IF i = 0 THEN st
    ELSE LET inv == Inverse(ap[i]) IN
         IF i \in io_fail \/ ~CanInvert(inv, st.fs, b)
         THEN [st EXCEPT !.attempted = Append(@, i), !.failed = @ \cup {i}]
         ELSE RevertLoopGivesUp([st EXCEPT !.fs = InverseEffect(inv, st.fs, b),
                                           !.attempted = Append(@, i)],
                                ap, b, i - 1, io_fail)

\* revert's loop over the applied list from position i down; io_fail are the
\* positions whose inverse the filesystem refuses.
RECURSIVE RevertLoop(_, _, _, _, _)
RevertLoop(st, ap, b, i, io_fail) ==
    IF i = 0 THEN st
    ELSE LET inv == Inverse(ap[i]) IN
         IF i \in io_fail \/ ~CanInvert(inv, st.fs, b)
         THEN RevertLoop([st EXCEPT !.attempted = Append(@, i), !.failed = @ \cup {i}],
                         ap, b, i - 1, io_fail)
         ELSE RevertLoop([st EXCEPT !.fs = InverseEffect(inv, st.fs, b),
                                    !.attempted = Append(@, i)],
                         ap, b, i - 1, io_fail)

\* revert refusing an engine that has nothing applied.
EngineRevertNeedsHistory(io_fail) ==
    IF applied = <<>>
    THEN [fs |-> fs, attempted |-> <<>>, failed |-> {0}]
    ELSE RevertLoop([fs |-> fs, attempted |-> <<>>, failed |-> {}],
                    applied, backups, Len(applied), io_fail)

\* engine.revert(): the inverses of the applied list, last applied first.
EngineRevert(io_fail) ==
    RevertLoop([fs |-> fs, attempted |-> <<>>, failed |-> {}],
               applied, backups, Len(applied), io_fail)

\* The entries of a sequence at the positions in keep, in order.
RECURSIVE Keep(_, _)
Keep(s, keep) ==
    IF s = <<>> THEN <<>>
    ELSE Keep(SubSeq(s, 1, Len(s) - 1), keep)
         \o (IF Len(s) \in keep THEN <<s[Len(s)]>> ELSE <<>>)

EInit ==
    /\ fs \in InitialFs
    /\ fs0 = fs
    /\ backups = <<>>
    /\ applied = <<>>
    /\ changeset = <<>>
    /\ attempted = <<>>
    /\ estate = "Idle"
    /\ eresult = "none"
    /\ last_op = "none"
    /\ used = FALSE
    /\ reverted = <<>>
    /\ rattempted = <<>>
    /\ rfailed = {}
    /\ rresult = "none"

\* engine.execute(changeset, backup_dir)
Execute ==
    /\ estate = "Idle"
    /\ ~used
    /\ \E cs \in Changesets, io_fail \in 0..MaxChanges :
        /\ io_fail <= Len(cs)
        /\ LET r == EngineExecute(cs, io_fail) IN
            /\ changeset' = cs
            /\ fs0' = fs
            /\ fs' = r.fs
            /\ backups' = r.backups
            /\ applied' = r.applied
            /\ attempted' = r.attempted
            /\ estate' = IF r.ok THEN "Committed" ELSE "Failed"
            /\ eresult' = IF r.ok THEN "Ok" ELSE "Err"
    /\ used' = TRUE
    /\ last_op' = "execute"
    /\ UNCHANGED <<reverted, rattempted, rfailed, rresult>>
    /\ UNCHANGED <<wvars, cvars, pvars, zvars>>

\* engine.revert()
Revert ==
    /\ \E io_fail \in SUBSET (1..Len(applied)) :
        LET r == EngineRevert(io_fail) IN
            /\ fs' = r.fs
            /\ reverted' = applied
            /\ rattempted' = r.attempted
            /\ rfailed' = r.failed
            /\ rresult' = IF r.failed = {} THEN "Ok" ELSE "Err"
            /\ applied' = Keep(applied, r.failed)
            /\ estate' = IF r.failed = {} THEN "Idle" ELSE "Failed"
    /\ last_op' = "revert"
    /\ UNCHANGED <<fs0, backups, changeset, attempted, eresult, used>>
    /\ UNCHANGED <<wvars, cvars, pvars, zvars>>

ENext == Execute \/ Revert


(***************************************************************************)
(* Names and their validators                                              *)
(***************************************************************************)
Code == <<"C", "o", "d", "e">>
Codex == <<"C", "o", "d", "e", "x">>
CodeEditor == <<"C", "o", "d", "e", "E", "d", "i", "t", "o", "r">>
Alpha == <<"A", "l", "p", "h", "a">>
Beta == <<"B", "e", "t", "a">>
Ghost == <<"G", "h", "o", "s", "t">>
My_Game == <<"M", "y", " ", "G", "a", "m", "e">>
Empty == <<>>
NoEntity == <<"-">>

\* target_name_max_len of the project, plugin and target workflows
ProjectNameMaxLen == 20
PluginNameMaxLen == 30
TargetNameMaxLen == 30

\* A name of n characters.
Filler(n) == [i \in 1..n |-> "a"]
OverProjectCap == Filler(ProjectNameMaxLen + 1)
OverPluginCap == Filler(PluginNameMaxLen + 1)

\* The new names a caller or a user may give.
NewNames == {Codex, Code, CodeEditor, Beta, My_Game, Empty, OverProjectCap, OverPluginCap}

Whitespace == {" "}
Alnum ==
    {"a", "b", "c", "d", "e", "f", "g", "h", "i", "j", "k", "l", "m",
     "n", "o", "p", "q", "r", "s", "t", "u", "v", "w", "x", "y", "z",
     "A", "B", "C", "D", "E", "F", "G", "H", "I", "J", "K", "L", "M",
     "N", "O", "P", "Q", "R", "S", "T", "U", "V", "W", "X", "Y", "Z",
     "0", "1", "2", "3", "4", "5", "6", "7", "8", "9"}

RECURSIVE TrimStart(_)
TrimStart(s) == IF s # <<>> /\ Head(s) \in Whitespace THEN TrimStart(Tail(s)) ELSE s
RECURSIVE TrimEnd(_)
TrimEnd(s) ==
    IF s # <<>> /\ s[Len(s)] \in Whitespace THEN TrimEnd(SubSeq(s, 1, Len(s) - 1)) ELSE s
Trim(s) == TrimEnd(TrimStart(s))

\* The validators of the new-name prompt: TRUE is Validation::Valid.
validate_target_name_is_not_empty(target_name) == Trim(target_name) # <<>>
\* A character outside ASCII, and the bytes str::len counts for a character.
EAcute == "U+00E9"
Utf8Len(c) == IF c = EAcute THEN 2 ELSE 1
RECURSIVE StrLen(_)
StrLen(s) == IF s = <<>> THEN 0 ELSE Utf8Len(Head(s)) + StrLen(Tail(s))

ConciseBelowCap(target_name, target_name_max_len) ==
    StrLen(target_name) < target_name_max_len
validate_target_name_is_concise(target_name, target_name_max_len) ==
    StrLen(target_name) <= target_name_max_len
validate_target_name_is_valid_identifier(target_name) ==
    \A i \in 1..Len(target_name) : target_name[i] \in Alnum \cup {"_"}
validate_target_name_is_unique(target_name, entities) ==
    \A entity \in entities : entity # target_name

(***************************************************************************)
(* The disk the workflows probe                                            *)
(***************************************************************************)
Roots == {"proj", "nosrc", "bare", "file"}

InitialDisk ==
    [r \in Roots |->
        CASE r = "proj" ->
                [is_dir |-> TRUE, descriptors |-> {Code}, source |-> TRUE,
                 plugins |-> {Alpha, Beta}, targets |-> {Code, CodeEditor},
                 backup_dir |-> FALSE, touched |-> FALSE]
          [] r = "nosrc" ->
                [is_dir |-> TRUE, descriptors |-> {Code}, source |-> FALSE,
                 plugins |-> {Alpha}, targets |-> {},
                 backup_dir |-> FALSE, touched |-> FALSE]
          [] r = "bare" ->
                [is_dir |-> TRUE, descriptors |-> {}, source |-> TRUE,
                 plugins |-> {}, targets |-> {},
                 backup_dir |-> FALSE, touched |-> FALSE]
          [] r = "file" ->
                [is_dir |-> FALSE, descriptors |-> {}, source |-> FALSE,
                 plugins |-> {}, targets |-> {},
                 backup_dir |-> FALSE, touched |-> FALSE]]

\* The validators of the project-root prompt.
validate_project_root_is_dir(project_root) == disk[project_root].is_dir
validate_project_root_contains_project_descriptor(project_root) ==
    disk[project_root].descriptors # {}
validate_project_root_contains_source_dir(project_root) == disk[project_root].source

\* The probes. detect_project_name asserts a directory and expects a descriptor.
detect_project_name_panics(project_root) ==
    ~disk[project_root].is_dir \/ disk[project_root].descriptors = {}
detect_project_name_panic(project_root) ==
    IF ~disk[project_root].is_dir THEN "assertion failed: project_root.is_dir()"
    ELSE "project descriptor should exist"
detect_project_name(project_root) == disk[project_root].descriptors
detect_project_plugins(project_root) == disk[project_root].plugins
detect_project_targets(project_root) == disk[project_root].targets

(***************************************************************************)
(* The workflows                                                           *)
(***************************************************************************)
DirectWorkflows == {"rename_project", "rename_plugin", "rename_target", "main"}
InteractiveWorkflows ==
    {"start_rename_project_workflow", "rename_plugin_interactive", "rename_target_interactive"}
Workflows == DirectWorkflows \cup InteractiveWorkflows
ProjectWorkflows == {"rename_project", "main", "start_rename_project_workflow"}
PluginWorkflows == {"rename_plugin", "rename_plugin_interactive"}
TargetWorkflows == {"rename_target", "rename_target_interactive"}

NoParams == [project_root |-> "-", entity |-> NoEntity, new_name |-> Empty]
NoContext ==
    [project_root |-> "-", project_name |-> Empty, entity |-> NoEntity, target_name |-> Empty]
NoEngine == [state |-> "none", executes |-> 0, reverts |-> 0, reverted_from |-> "none"]
NoResult == [kind |-> "none", err |-> "-"]
Ok == [kind |-> "Ok", err |-> "-"]
Err(e) == [kind |-> "Err", err |-> e]
Panic(e) == [kind |-> "panic", err |-> e]

\* The Params a caller may pass to each workflow's direct API.
ParamsFor(w) ==
    IF w \in ProjectWorkflows
    THEN {[project_root |-> r, entity |-> NoEntity, new_name |-> n] :
            <<r, n>> \in Roots \X NewNames}
    ELSE {[project_root |-> r, entity |-> e, new_name |-> n] :
            <<r, e, n>> \in Roots \X {Alpha, Code, Ghost} \X NewNames}

WInit ==
    /\ disk = InitialDisk
    /\ wf = "none"
    /\ pc = "idle"
    /\ params = NoParams
    /\ context = NoContext
    /\ engine = NoEngine
    /\ confirmed = "not asked"
    /\ result = NoResult
    /\ log = <<>>
    /\ exit_code = -1

\* The workflow returns (to its caller; main returns to the runtime, which
\* exits with status 0).
Return(r, messages) ==
    /\ pc' = "returned"
    /\ result' = r
    /\ log' = log \o messages
    /\ exit_code' = IF wf = "main" THEN 0 ELSE exit_code

\* The workflow panics: an unwrap, expect or assert failed. A panicking
\* process exits with status 101.
Unwind(e) ==
    /\ pc' = "panicked"
    /\ result' = Panic(e)
    /\ log' = log
    /\ exit_code' = IF wf = "main" THEN 101 ELSE exit_code

\* A caller starts a workflow: a direct API with its Params, or an
\* interactive one.
Invoke ==
    /\ pc = "idle"
    /\ \E w \in Workflows :
        /\ wf' = w
        /\ IF w \in DirectWorkflows
           THEN \E p \in ParamsFor(w) : params' = p /\ pc' = "validate"
           ELSE /\ params' = params
                /\ pc' = IF w = "start_rename_project_workflow" THEN "gather" ELSE "get_params"
    /\ UNCHANGED <<disk, context, engine, confirmed, result, log, exit_code>>
    /\ UNCHANGED <<evars, cvars, pvars, zvars>>

\* What a prompt can return: the answers its validators accept. The user
\* may also cancel a prompt, which returns an error.
AcceptedRoots(needs_source) ==
    {r \in Roots :
        /\ validate_project_root_is_dir(r)
        /\ validate_project_root_contains_project_descriptor(r)
        /\ needs_source => validate_project_root_contains_source_dir(r)}

AcceptedProjectNames ==
    {n \in NewNames :
        /\ validate_target_name_is_not_empty(n)
        /\ validate_target_name_is_concise(n, ProjectNameMaxLen)
        /\ validate_target_name_is_valid_identifier(n)}

AcceptedPluginNames(plugins) ==
    {n \in NewNames :
        /\ validate_target_name_is_not_empty(n)
        /\ validate_target_name_is_concise(n, PluginNameMaxLen)
        /\ validate_target_name_is_unique(n, plugins)
        /\ validate_target_name_is_valid_identifier(n)}

AcceptedTargetNames(targets) ==
    {n \in NewNames :
        /\ validate_target_name_is_not_empty(n)
        /\ validate_target_name_is_concise(n, TargetNameMaxLen)
        /\ validate_target_name_is_unique(n, targets)
        /\ validate_target_name_is_valid_identifier(n)}

\* get_params_from_user of the plugin and target workflows: every Params the
\* three prompts (root, selection, new name) can produce.
PluginParamsFromUser ==
    {[project_root |-> r, entity |-> e, new_name |-> n] :
        <<r, e, n>> \in
            {x \in AcceptedRoots(TRUE) \X {Alpha, Beta} \X NewNames :
                /\ x[2] \in detect_project_plugins(x[1])
                /\ x[3] \in AcceptedPluginNames(detect_project_plugins(x[1]))}}

TargetParamsFromUser ==
    {[project_root |-> r, entity |-> e, new_name |-> n] :
        <<r, e, n>> \in
            {x \in AcceptedRoots(TRUE) \X {Code, CodeEditor} \X NewNames :
                /\ x[2] \in detect_project_targets(x[1])
                /\ x[3] \in AcceptedTargetNames(detect_project_targets(x[1]))}}

\* rename_plugin_interactive / rename_target_interactive: the prompts that
\* build the Params.
GetParamsFromUser ==
    /\ pc = "get_params"
    /\ \/ /\ \E p \in (IF wf = "rename_plugin_interactive"
                       THEN PluginParamsFromUser ELSE TargetParamsFromUser) :
                params' = p
          /\ pc' = "validate"
          /\ UNCHANGED <<result, log, exit_code>>
       \/ /\ Return(Err("prompt"), <<>>)
          /\ params' = params
    /\ UNCHANGED <<disk, wf, context, engine, confirmed>>
    /\ UNCHANGED <<evars, cvars, pvars, zvars>>

\* validate_params of the project workflow; name is the detected project name.
ProjectValidateParams(p, io_err, name) ==
    IF ~disk[p.project_root].is_dir
    THEN Err("project root must be a directory")
    ELSE IF io_err THEN Err("io")
    ELSE IF disk[p.project_root].descriptors = {}
    THEN Err("project root must contain a project descriptor")
    ELSE IF name = p.new_name
    THEN Err("new name must be different than current project name")
    ELSE Ok

\* validate_params of the plugin and of the target workflow.
StubValidateParams(p) == Ok

\* validate_input of the command line entry point.
ValidateInput(p, io_err, name) ==
    IF ~disk[p.project_root].is_dir
    THEN Err("project root must be a directory")
    ELSE IF io_err THEN Err("io")
    ELSE IF disk[p.project_root].descriptors = {}
    THEN Err("project root must contain a project descriptor")
    ELSE IF ~(/\ validate_target_name_is_not_empty(p.new_name)
              /\ validate_target_name_is_concise(p.new_name, ProjectNameMaxLen)
              /\ validate_target_name_is_valid_identifier(p.new_name))
    THEN Err("new name must be a valid identifier")
    ELSE IF name = p.new_name
    THEN Err("new name must be different than current project name")
    ELSE Ok

\* The project names detect_project_name may return for a root.
DetectedNames(project_root) ==
    IF detect_project_name(project_root) = {} THEN {Empty}
    ELSE detect_project_name(project_root)

\* validate_params(&params)? / validate_input(&input)
ValidateParams ==
    /\ pc = "validate"
    /\ \E io_err \in BOOLEAN, name \in DetectedNames(params.project_root) :
        LET v == CASE wf = "rename_project" -> ProjectValidateParams(params, io_err, name)
                   [] wf = "main" -> ValidateInput(params, io_err, name)
                   [] OTHER -> StubValidateParams(params)
        IN  IF v = Ok
            THEN pc' = "gather" /\ UNCHANGED <<result, log, exit_code>>
            ELSE IF wf = "main"
                 THEN Return(NoResult, <<"invalid input">>)
                 ELSE Return(v, <<>>)
    /\ UNCHANGED <<disk, wf, params, context, engine, confirmed>>
    /\ UNCHANGED <<evars, cvars, pvars, zvars>>

\* The Contexts gather_context can return from the prompts of the interactive
\* project workflow and of the target workflow.
ProjectContextsFromUser ==
    {[project_root |-> r, project_name |-> pn, entity |-> NoEntity, target_name |-> n] :
        <<r, pn, n>> \in
            {x \in AcceptedRoots(FALSE) \X {Code} \X AcceptedProjectNames :
                x[2] \in detect_project_name(x[1])}}

TargetContextsFromUser ==
    {[project_root |-> p.project_root, project_name |-> Empty,
      entity |-> p.entity, target_name |-> p.new_name] : p \in TargetParamsFromUser}

\* gather_context / gather_context_from_params / gather_context_from_input
GatherContext ==
    /\ pc = "gather"
    /\ \/ /\ wf \in {"rename_project", "main"}
          /\ \E io_err \in BOOLEAN, name \in DetectedNames(params.project_root) :
                IF detect_project_name_panics(params.project_root)
                THEN /\ Unwind(detect_project_name_panic(params.project_root))
                     /\ context' = context
                ELSE IF io_err
                THEN /\ context' = context
                     /\ IF wf = "main"
                        THEN Return(NoResult, <<"failed to gather context">>)
                        ELSE Return(Err("io"), <<>>)
                ELSE /\ context' = [project_root |-> params.project_root,
                                    project_name |-> name,
                                    entity |-> NoEntity,
                                    target_name |-> params.new_name]
                     /\ pc' = "backup"
                     /\ UNCHANGED <<result, log, exit_code>>
       \/ /\ wf \in PluginWorkflows
          /\ \E io_err \in BOOLEAN, name \in DetectedNames(params.project_root) :
                IF detect_project_name_panics(params.project_root)
                THEN /\ Unwind(detect_project_name_panic(params.project_root))
                     /\ context' = context
                ELSE IF io_err
                THEN Return(Err("io"), <<>>) /\ context' = context
                ELSE IF params.entity \notin detect_project_plugins(params.project_root)
                THEN Unwind("called Option::unwrap() on a None value")
                     /\ context' = context
                ELSE /\ context' = [project_root |-> params.project_root,
                                    project_name |-> name,
                                    entity |-> params.entity,
                                    target_name |-> params.new_name]
                     /\ pc' = "backup"
                     /\ UNCHANGED <<result, log, exit_code>>
       \/ /\ wf \in TargetWorkflows \cup {"start_rename_project_workflow"}
          /\ \/ /\ \E c \in (IF wf \in TargetWorkflows
                             THEN TargetContextsFromUser ELSE ProjectContextsFromUser) :
                      context' = c
                /\ pc' = "backup"
                /\ UNCHANGED <<result, log, exit_code>>
             \/ /\ Return(Err("prompt"), <<>>)
                /\ context' = context
    /\ UNCHANGED <<disk, wf, params, engine, confirmed>>
    /\ UNCHANGED <<evars, cvars, pvars, zvars>>

\* create_backup_dir(&context.project_root)? , or in rename_project and main
\* fs::create_dir_all(&backup_dir).unwrap(); then Engine::new().
CreateBackupDir ==
    /\ pc = "backup"
    /\ \E io_err \in BOOLEAN :
        IF io_err
        THEN /\ IF wf \in {"rename_project", "main"}
                THEN Unwind("called Result::unwrap() on an Err value")
                ELSE Return(Err("io"), <<>>)
             /\ UNCHANGED <<disk, engine>>
        ELSE /\ disk' = [disk EXCEPT ![context.project_root].backup_dir = TRUE]
             /\ engine' = [state |-> "Idle", executes |-> 0, reverts |-> 0,
                           reverted_from |-> "none"]
             /\ pc' = "execute"
             /\ UNCHANGED <<result, log, exit_code>>
    /\ UNCHANGED <<wf, params, context, confirmed>>
    /\ UNCHANGED <<evars, cvars, pvars, zvars>>

\* The project on disk once the workflow's changeset has been applied.
Renamed(project, c) ==
    CASE wf \in ProjectWorkflows ->
            [project EXCEPT !.descriptors = (@ \ {c.project_name}) \cup {c.target_name},
                            !.targets = {IF t = c.project_name THEN c.target_name ELSE t : t \in @},
                            !.touched = TRUE]
      [] wf \in PluginWorkflows ->
            [project EXCEPT !.plugins = (@ \ {c.entity}) \cup {c.target_name},
                            !.touched = TRUE]
      [] wf \in TargetWorkflows ->
            [project EXCEPT !.targets = (@ \ {c.entity}) \cup {c.target_name},
                            !.touched = TRUE]

\* engine.execute(changeset, backup_dir): all Changes applied, or an error
\* with the Changes before it applied.
ExecuteChangeset ==
    /\ pc = "execute"
    /\ \E ok \in BOOLEAN :
        IF ok
        THEN /\ disk' = [disk EXCEPT ![context.project_root] = Renamed(@, context)]
             /\ engine' = [engine EXCEPT !.state = "Committed", !.executes = @ + 1]
             /\ pc' = "exec_ok"
        ELSE /\ disk' = [disk EXCEPT ![context.project_root].touched = TRUE]
             /\ engine' = [engine EXCEPT !.state = "Failed", !.executes = @ + 1]
             /\ pc' = "exec_err"
    /\ UNCHANGED <<wf, params, context, confirmed, result, log, exit_code>>
    /\ UNCHANGED <<evars, cvars, pvars, zvars>>

\* engine.revert(): the Changes undone, or an error with the project left as
\* far restored as it got.
EngineAfterRevert(ok) ==
    [engine EXCEPT !.state = IF ok THEN "Idle" ELSE "Failed",
                   !.reverts = @ + 1,
                   !.reverted_from = engine.state]
DiskAfterRevert(ok) ==
    IF ok THEN [disk EXCEPT ![context.project_root].touched = FALSE] ELSE disk

\* user_confirms_revert(): a prompt that fails counts as a no.
RevertAnswers == {"yes", "no", "cancelled"}
user_confirms_revert(answer) == answer = "yes"

\* Every workflow leaving the choice to revert to the user.
CallsRevertIfConfirmed(answer) == user_confirms_revert(answer)

\* Does the workflow call revert after a failed execute? The interactive
\* project workflow asks the user first.
CallsRevert(answer) == wf = "start_rename_project_workflow" => user_confirms_revert(answer)

\* What the workflow returns after a failed execute.
ResultAfterFailure(reverts, revert_ok) ==
    CASE wf = "rename_project" -> IF revert_ok THEN Err("execute") ELSE Err("revert")
      [] wf = "main" -> NoResult
      [] OTHER -> IF reverts /\ ~revert_ok THEN Err("revert") ELSE Ok

\* What the workflow logs after a failed execute.
LogAfterFailure(reverts, revert_ok) ==
    CASE wf = "rename_project" -> <<>>
      [] wf = "main" ->
            <<"error while renaming project">>
            \o (IF revert_ok THEN <<>> ELSE <<"error while reverting">>)
      [] OTHER ->
            <<"execute error">>
            \o (IF reverts /\ ~revert_ok THEN <<>> ELSE <<"failure message">>)

\* The branch taken when execute returned an error.
HandleExecuteError ==
    /\ pc = "exec_err"
    /\ \E answer \in (IF wf = "start_rename_project_workflow"
                        THEN RevertAnswers ELSE {"not asked"}),
          revert_ok \in BOOLEAN :
        LET reverts == CallsRevert(answer) IN
        /\ confirmed' = answer
        /\ IF reverts
           THEN /\ engine' = EngineAfterRevert(revert_ok)
                /\ disk' = DiskAfterRevert(revert_ok)
           ELSE UNCHANGED <<engine, disk>>
        /\ Return(ResultAfterFailure(reverts, revert_ok), LogAfterFailure(reverts, revert_ok))
    /\ UNCHANGED <<wf, params, context>>
    /\ UNCHANGED <<evars, cvars, pvars, zvars>>

\* A workflow that reverts its engine on the way out of a successful execute.
ReportSuccessAfterRevert ==
    /\ pc = "exec_ok"
    /\ engine' = EngineAfterRevert(TRUE)
    /\ IF wf = "main" THEN Return(NoResult, <<>>)
       ELSE IF wf = "rename_project" THEN Return(Ok, <<>>)
       ELSE Return(Ok, <<"success message">>)
    /\ UNCHANGED <<disk, wf, params, context, confirmed>>
    /\ UNCHANGED <<evars, cvars, pvars, zvars>>

\* The path taken when execute returned Ok.
ReportSuccess ==
    /\ pc = "exec_ok"
    /\ IF wf = "main" THEN Return(NoResult, <<>>)
       ELSE IF wf = "rename_project" THEN Return(Ok, <<>>)
       ELSE Return(Ok, <<"success message">>)
    /\ UNCHANGED <<disk, wf, params, context, engine, confirmed>>
    /\ UNCHANGED <<evars, cvars, pvars, zvars>>

WNext ==
    \/ Invoke
    \/ GetParamsFromUser
    \/ ValidateParams
    \/ GatherContext
    \/ CreateBackupDir
    \/ ExecuteChangeset
    \/ HandleExecuteError
    \/ ReportSuccess

(***************************************************************************)
(* The command line                                                        *)
(***************************************************************************)
MaxArgs == 5

\* The subcommand and option tokens parse_args knows.
Subcommands == {"rename-project", "rename-plugin", "rename-target", "rename-module", "wizard"}
ValueOptions == {"--project", "--plugin", "--module", "--target", "--new-name"}
FlagOptions == {"--help", "--version"}

\* Option<Command>: None, or the Command from_str gives for a subcommand.
NoCommand == "None"
from_str(s) ==
    CASE s = "rename-project" -> "RenameProject"
      [] s = "rename-plugin" -> "RenamePlugin"
      [] s = "rename-target" -> "RenameTarget"
      [] s = "rename-module" -> "RenameModule"
      [] s = "wizard" -> "Wizard"

\* The options map, key -> Option<String>: <<>> is None, <<v>> is Some(v).
NoOptions == [k \in {} |-> <<>>]
Insert(options, key, value) ==
    [k \in DOMAIN options \cup {key} |-> IF k = key THEN value ELSE options[k]]

NotParsed == [kind |-> "none", command |-> NoCommand, options |-> NoOptions, msg |-> <<>>]
CliOk(command, options) ==
    [kind |-> "Ok", command |-> command, options |-> options, msg |-> <<>>]
CliErr(command, msg) ==
    [kind |-> "Err", command |-> command, options |-> NoOptions, msg |-> msg]

\* The argument lists given to the process: the program name, then up to
\* MaxArgs tokens of any kind, or MaxArgs + 1 tokens of a rename-project
\* command line (the subcommand, its two options with their values, and one
\* token more), or MaxArgs + 2 tokens of a rename-plugin command line (the
\* subcommand and its three options with their values).
\* A token after a value-taking option is its value, whatever it is; in any
\* other place Codex is an argument parse_args does not know.
ArgTokens ==
    {"rename-project", "rename-plugin", "wizard",
     "--project", "--plugin", "--new-name", "--help", "Codex"}
ProjectTokens == {"rename-project", "--project", "--new-name", "--help", "Codex"}
PluginTokens == {"rename-plugin", "--project", "--plugin", "--new-name", "Codex"}
LongArgs == MaxArgs + 2
TokensAt(n) ==
    IF n <= MaxArgs THEN ArgTokens
    ELSE IF n = MaxArgs + 1 THEN ProjectTokens
    ELSE PluginTokens

\* parse_args letting a repeated option through: the later value wins.
RECURSIVE ParseLoopLastWins(_, _, _, _)
ParseLoopLastWins(a, i, command, options) ==
    IF i > Len(a) THEN CliOk(command, options)
    ELSE LET arg == a[i] IN
         IF arg \in Subcommands
         THEN ParseLoopLastWins(a, i + 1, from_str(arg), options)
         ELSE IF arg \in ValueOptions
         THEN IF i + 1 > Len(a)
              THEN CliErr(command, <<"missing argument for option", arg>>)
              ELSE ParseLoopLastWins(a, i + 2, command, Insert(options, arg, <<a[i + 1]>>))
         ELSE IF arg \in FlagOptions
         THEN ParseLoopLastWins(a, i + 1, command, Insert(options, arg, <<>>))
         ELSE CliErr(command, <<"unknown argument provided", arg>>)

\* parse_args passing over an argument it does not know.
RECURSIVE ParseLoopSkipsUnknown(_, _, _, _)
ParseLoopSkipsUnknown(a, i, command, options) ==
    IF i > Len(a) THEN CliOk(command, options)
    ELSE LET arg == a[i] IN
         IF arg \in Subcommands
         THEN IF command # NoCommand
              THEN CliErr(NoCommand, <<"command cannot be specified more than once">>)
              ELSE ParseLoopSkipsUnknown(a, i + 1, from_str(arg), options)
         ELSE IF arg \in ValueOptions
         THEN IF arg \in DOMAIN options
              THEN CliErr(command, <<"option cannot be specified more than once", arg>>)
              ELSE IF i + 1 > Len(a)
              THEN CliErr(command, <<"missing argument for option", arg>>)
              ELSE ParseLoopSkipsUnknown(a, i + 2, command, Insert(options, arg, <<a[i + 1]>>))
         ELSE IF arg \in FlagOptions
         THEN ParseLoopSkipsUnknown(a, i + 1, command, Insert(options, arg, <<>>))
         ELSE ParseLoopSkipsUnknown(a, i + 1, command, options)

\* The loop of parse_args from argument i on: the command and options read
\* when the arguments run out, or the error of the first argument refused.
RECURSIVE ParseLoop(_, _, _, _)
ParseLoop(a, i, command, options) ==
    IF i > Len(a) THEN CliOk(command, options)
    ELSE LET arg == a[i] IN
         IF arg \in Subcommands
         THEN IF command # NoCommand
              THEN CliErr(NoCommand, <<"command cannot be specified more than once">>)
              ELSE ParseLoop(a, i + 1, from_str(arg), options)
         ELSE IF arg \in ValueOptions
         THEN IF arg \in DOMAIN options
              THEN CliErr(command, <<"option cannot be specified more than once", arg>>)
              ELSE IF i + 1 > Len(a)
              THEN CliErr(command, <<"missing argument for option", arg>>)
              ELSE ParseLoop(a, i + 2, command, Insert(options, arg, <<a[i + 1]>>))
         ELSE IF arg \in FlagOptions
         THEN ParseLoop(a, i + 1, command, Insert(options, arg, <<>>))
         ELSE CliErr(command, <<"unknown argument provided", arg>>)

\* An option validator's answer: <<>> for Ok(()), else the error message.
\* The unsupported-option message names one of the keys that are not allowed
\* (the map's iteration order decides which); the model keeps all of them.
Unsupported(options, allowed) ==
    <<"option is not supported for this operation", DOMAIN options \ allowed>>

\* A rename validator that looks for the required options only.
RECURSIVE RequireOptionsOnly(_, _, _)
RequireOptionsOnly(options, required, allowed) ==
    IF required = <<>> THEN <<>>
    ELSE IF Head(required) \notin DOMAIN options
         THEN <<"must be specified", Head(required)>>
         ELSE RequireOptionsOnly(options, Tail(required), allowed)

\* The shape the four rename validators share: the required options in the
\* order they are looked for, then the options that are not allowed.
RECURSIVE RequireOptions(_, _, _)
RequireOptions(options, required, allowed) ==
    IF required = <<>>
    THEN IF DOMAIN options \subseteq allowed THEN <<>> ELSE Unsupported(options, allowed)
    ELSE IF Head(required) \notin DOMAIN options
         THEN <<"must be specified", Head(required)>>
         ELSE RequireOptions(options, Tail(required), allowed)

validate_base_command_options(options) ==
    IF ~(DOMAIN options \subseteq FlagOptions) THEN Unsupported(options, FlagOptions)
    ELSE IF "--help" \notin DOMAIN options /\ "--version" \notin DOMAIN options
    THEN <<"--help, --version, or command must be specified">>
    ELSE <<>>

validate_rename_project_options(options) ==
    RequireOptions(options, <<"--project", "--new-name">>, {"--project", "--new-name"})
validate_rename_plugin_options(options) ==
    RequireOptions(options, <<"--project", "--plugin", "--new-name">>,
                   {"--project", "--plugin", "--new-name"})
validate_rename_module_options(options) ==
    RequireOptions(options, <<"--project", "--module", "--new-name">>,
                   {"--project", "--module", "--new-name"})
validate_rename_target_options(options) ==
    RequireOptions(options, <<"--project", "--target", "--new-name">>,
                   {"--project", "--target", "--new-name"})
validate_wizard_options(options) ==
    IF DOMAIN options # {} THEN Unsupported(options, {}) ELSE <<>>

\* parse_args(&args): the loop over the arguments after the program name,
\* then the validator of the command that was read.
parse_args(a) ==
    LET r == ParseLoop(a, 2, NoCommand, NoOptions) IN
    IF r.kind = "Err" THEN r
    ELSE LET v == CASE r.command = NoCommand -> validate_base_command_options(r.options)
                    [] r.command = "RenameProject" -> validate_rename_project_options(r.options)
                    [] r.command = "RenamePlugin" -> validate_rename_plugin_options(r.options)
                    [] r.command = "RenameTarget" -> validate_rename_target_options(r.options)
                    [] r.command = "RenameModule" -> validate_rename_module_options(r.options)
                    [] r.command = "Wizard" -> validate_wizard_options(r.options)
         IN  IF v = <<>> THEN r ELSE CliErr(r.command, v)

\* A workflow main started, with the input it built from the options.
Started(workflow, project_root, entity, new_name) ==
    [workflow |-> workflow, project_root |-> project_root,
     entity |-> entity, new_name |-> new_name]

CInit ==
    /\ \E n \in 0..LongArgs : \E s \in [1..n -> TokensAt(n)] : args = <<"renom">> \o s
    /\ cli_pc = "start"
    /\ parsed = NotParsed
    /\ ran = <<>>
    /\ output = <<>>

\* let parsed_args = cli::parse_args(&args);
ParseArgs ==
    /\ cli_pc = "start"
    /\ parsed' = parse_args(args)
    /\ cli_pc' = "parsed"
    /\ UNCHANGED <<args, ran, output>>
    /\ UNCHANGED <<evars, wvars, pvars, zvars>>

\* The rest of main: the help text and the error when the arguments did not
\* parse, else the branch of the command.
Dispatch ==
    /\ cli_pc = "parsed"
    /\ cli_pc' = "done"
    /\ LET command == parsed.command
           options == parsed.options
       IN  CASE parsed.kind = "Err" ->
                    /\ output' = <<"help text", command, "error", parsed.msg>>
                    /\ ran' = ran
             [] parsed.kind = "Ok" /\ command = NoCommand ->
                    /\ output' = IF "--help" \in DOMAIN options THEN <<"help text", command>>
                                 ELSE IF "--version" \in DOMAIN options THEN <<"version">>
                                 ELSE output
                    /\ ran' = ran
             [] parsed.kind = "Ok" /\ command = "RenameProject" ->
                    /\ ran' = Append(ran, Started("rename_project", options["--project"][1],
                                                  "-", options["--new-name"][1]))
                    /\ output' = output
             [] parsed.kind = "Ok"
                    /\ command \in {"RenamePlugin", "RenameTarget", "RenameModule"} ->
                    /\ output' = <<"not yet implemented">>
                    /\ ran' = ran
             [] parsed.kind = "Ok" /\ command = "Wizard" ->
                    /\ ran' = Append(ran, Started("start_interactive_dialogue", "-", "-", "-"))
                    /\ output' = output
    /\ UNCHANGED <<args, parsed>>
    /\ UNCHANGED <<evars, wvars, pvars, zvars>>

CNext == ParseArgs \/ Dispatch

(***************************************************************************)
(* The new-name prompt: get_target_name_from_user                          *)
(***************************************************************************)
\* Candidates are every string of at most MaxNameLen characters over
\* NameChars, the names of NewNames and names at the caps.
MaxNameLen == 3
NameChars == {"a", "Z", "7", "_", " ", "-", EAcute}
CapNames == {Filler(ProjectNameMaxLen), Filler(PluginNameMaxLen)}
Prompts == {"project", "plugin", "target"}

\* The project the plugin and target prompts were opened for.
PromptRoot == "proj"

Valid == [kind |-> "Valid"]
Invalid(message) == [kind |-> "Invalid", message |-> message]
NotSubmitted == [kind |-> "none"]
Validation(ok, message) == IF ok THEN Valid ELSE Invalid(message)

not_empty_message == "Target name must not be empty"
concise_message(target_name_max_len) ==
    IF target_name_max_len = ProjectNameMaxLen
    THEN "Target name must not be longer than 20 characters"
    ELSE "Target name must not be longer than 30 characters"
identifier_message ==
    "Target name must be comprised of alphanumeric characters and underscores only"
plugin_conflict_message == "Target name must not conflict with another plugin"
target_conflict_message == "Target name must not conflict with another target"

\* The validators a prompt was given, in the order of its with_validator
\* calls, applied to the submitted text.
project_validators(target_name) ==
    << Validation(validate_target_name_is_not_empty(target_name), not_empty_message),
       Validation(validate_target_name_is_concise(target_name, ProjectNameMaxLen),
                  concise_message(ProjectNameMaxLen)),
       Validation(validate_target_name_is_valid_identifier(target_name),
                  identifier_message) >>

plugin_validators(target_name, plugins) ==
    << Validation(validate_target_name_is_not_empty(target_name), not_empty_message),
       Validation(validate_target_name_is_concise(target_name, PluginNameMaxLen),
                  concise_message(PluginNameMaxLen)),
       Validation(validate_target_name_is_unique(target_name, plugins),
                  plugin_conflict_message),
       Validation(validate_target_name_is_valid_identifier(target_name),
                  identifier_message) >>

target_validators(target_name, targets) ==
    << Validation(validate_target_name_is_not_empty(target_name), not_empty_message),
       Validation(validate_target_name_is_concise(target_name, TargetNameMaxLen),
                  concise_message(TargetNameMaxLen)),
       Validation(validate_target_name_is_unique(target_name, targets),
                  target_conflict_message),
       Validation(validate_target_name_is_valid_identifier(target_name),
                  identifier_message) >>

Validators(p, target_name) ==
    CASE p = "project" -> project_validators(target_name)
      [] p = "plugin" ->
            plugin_validators(target_name, detect_project_plugins(PromptRoot))
      [] OTHER -> target_validators(target_name, detect_project_targets(PromptRoot))

\* The prompt runs the validators in order; the first Invalid is the answer
\* shown to the user, and the text is accepted when none is Invalid.
RECURSIVE FirstInvalid(_)
FirstInvalid(validations) ==
    IF validations = <<>> THEN Valid
    ELSE IF Head(validations).kind = "Invalid" THEN Head(validations)
    ELSE FirstInvalid(Tail(validations))

PInit ==
    /\ prompt \in Prompts
    /\ \/ \E n \in 0..MaxNameLen : \E s \in [1..n -> NameChars] : candidate = s
       \/ candidate \in NewNames \cup CapNames
    /\ verdict = NotSubmitted

\* The user submits the text: the validators run.
Submit ==
    /\ verdict = NotSubmitted
    /\ verdict' = FirstInvalid(Validators(prompt, candidate))
    /\ UNCHANGED <<prompt, candidate>>
    /\ UNCHANGED <<evars, wvars, cvars, zvars>>

\* The text was refused: the prompt stays open and the user edits the text,
\* deleting its last character or typing one more.
Retype ==
    /\ verdict.kind = "Invalid"
    /\ \/ /\ candidate # <<>>
          /\ candidate' = SubSeq(candidate, 1, Len(candidate) - 1)
       \/ /\ Len(candidate) < MaxNameLen
          /\ \E c \in NameChars : candidate' = Append(candidate, c)
    /\ verdict' = NotSubmitted
    /\ UNCHANGED prompt
    /\ UNCHANGED <<evars, wvars, cvars, zvars>>

PNext == Submit \/ Retype

\* No prompt open, for the other specifications.
PIdle ==
    /\ prompt = "-"
    /\ candidate = <<>>
    /\ verdict = NotSubmitted

(***************************************************************************)
(* The wizard session: start_interactive_dialogue                          *)
(***************************************************************************)
\* The workflows one session may start.
MaxRounds == 3

\* The options of the workflow selection.
WizardWorkflows == {"RenameProject", "RenamePlugin", "RenameTarget", "RenameModule"}
\* The function start_interactive_dialogue calls for a selection.
WizardCall(workflow) ==
    CASE workflow = "RenameProject" -> "rename_project_interactive"
      [] workflow = "RenamePlugin" -> "start_rename_plugin_workflow"
      [] workflow = "RenameTarget" -> "rename_target_interactive"
      [] OTHER -> "start_rename_module_workflow"

\* What a prompt of the session can return: an answer, or an error of the
\* prompt (cancelled, interrupted, no terminal).
PromptErrors == {"Operation was canceled by the user", "Operation was interrupted by the user"}
\* A workflow returns Ok(()) or Err with a message.
WorkflowErrors == {"workflow failed"}
ConfirmAnswers == {"yes", "no", "failed"}

Logged(level, message) == [level |-> level, message |-> message]
Welcome == Logged("header", "Welcome to Renom")
Thanks == Logged("basic", "Thanks for using Renom.")

\* ok_or_quit on an Err: log the error and return from the dialogue.
ok_or_quit(e) ==
    /\ session_log' = Append(session_log, Logged("error", e))
    /\ session' = "ended"

\* Confirm(...).prompt().unwrap_or(false)
ConfirmUnlessDeclined(answer) == answer # "no"
user_wants_to_start_new_workflow(answer) == answer = "yes"

\* After set_up_terminal and the header, at the top of the loop.
ZInit ==
    /\ session = "select"
    /\ selected = "-"
    /\ started = <<>>
    /\ answers = <<>>
    /\ session_log = <<Welcome>>

\* request_workflow_selection_from_user, through ok_or_quit.
SelectWorkflow ==
    /\ session = "select"
    /\ Len(started) < MaxRounds
    /\ \/ \E workflow \in WizardWorkflows :
            /\ selected' = workflow
            /\ started' = Append(started, WizardCall(workflow))
            /\ session' = "run"
            /\ UNCHANGED session_log
       \/ \E e \in PromptErrors :
            /\ ok_or_quit(e)
            /\ UNCHANGED <<selected, started>>
    /\ UNCHANGED answers
    /\ UNCHANGED <<evars, wvars, cvars, pvars>>

\* The selected workflow runs and returns, through ok_or_quit.
RunWorkflow ==
    /\ session = "run"
    /\ \/ /\ session' = "confirm"
          /\ UNCHANGED session_log
       \/ \E e \in WorkflowErrors \cup PromptErrors : ok_or_quit(e)
    /\ UNCHANGED <<selected, started, answers>>
    /\ UNCHANGED <<evars, wvars, cvars, pvars>>

\* if !user_wants_to_start_new_workflow() { break; } and what follows the loop.
AskForNewWorkflow ==
    /\ session = "confirm"
    /\ \E answer \in ConfirmAnswers :
        /\ answers' = Append(answers, answer)
        /\ IF user_wants_to_start_new_workflow(answer)
           THEN /\ session' = "select"
                /\ UNCHANGED session_log
           ELSE /\ session' = "ended"
                /\ session_log' = Append(session_log, Thanks)
    /\ UNCHANGED <<selected, started>>
    /\ UNCHANGED <<evars, wvars, cvars, pvars>>

ZNext == SelectWorkflow \/ RunWorkflow \/ AskForNewWorkflow

\* No session, for the other specifications.
ZIdle ==
    /\ session = "idle"
    /\ selected = "-"
    /\ started = <<>>
    /\ answers = <<>>
    /\ session_log = <<>>

\* The command line at rest, for the other specifications.
CIdle ==
    /\ args = <<"renom">>
    /\ cli_pc = "idle"
    /\ parsed = NotParsed
    /\ ran = <<>>
    /\ output = <<>>

\* The engine at rest, for the workflow specification; the workflows at rest,
\* for the engine specification.
EIdle ==
    /\ fs = [p \in Paths |-> Absent]
    /\ fs0 = fs
    /\ backups = <<>>
    /\ applied = <<>>
    /\ changeset = <<>>
    /\ attempted = <<>>
    /\ estate = "Idle"
    /\ eresult = "none"
    /\ last_op = "none"
    /\ used = FALSE
    /\ reverted = <<>>
    /\ rattempted = <<>>
    /\ rfailed = {}
    /\ rresult = "none"

Init == WInit /\ EIdle /\ CIdle /\ PIdle /\ ZIdle
Next == WNext
Spec == Init /\ [][Next]_vars

EngineInit == EInit /\ WInit /\ CIdle /\ PIdle /\ ZIdle
EngineSpec == EngineInit /\ [][ENext]_vars

CliInit == CInit /\ WInit /\ EIdle /\ PIdle /\ ZIdle
CliSpec == CliInit /\ [][CNext]_vars

PromptInit == PInit /\ WInit /\ EIdle /\ CIdle /\ ZIdle
PromptSpec == PromptInit /\ [][PNext]_vars

WizardInit == ZInit /\ WInit /\ EIdle /\ CIdle /\ PIdle
WizardSpec == WizardInit /\ [][ZNext]_vars

(***************************************************************************)
(* Properties of the engine                                                *)
(***************************************************************************)
\* The Changes execute applied: the changeset's prefix before the failure.
NApplied == IF eresult = "Err" THEN Len(attempted) - 1 ELSE Len(attempted)
ExecutedPrefix == SubSeq(changeset, 1, NApplied)

\* The filesystem after applying all of cs to f.
RECURSIVE EffectAll(_, _)
EffectAll(cs, f) == IF cs = <<>> THEN f ELSE EffectAll(Tail(cs), Effect(Head(cs), f))

\* The last revert was given everything execute applied.
RevertedWhole ==
    /\ used
    /\ last_op = "revert"
    /\ Len(reverted) = NApplied
    /\ \A i \in 1..NApplied : reverted[i].change = changeset[i]

\* A Change whose inverse, as the change model gives it, can restore the
\* pre-image: a rename or copy onto nothing, a replacement that brings a
\* character the file does not hold.
Restorable(c, f) ==
    CASE c.op \in {"RenameFile", "CopyFile"} -> f[c.to].kind = "absent"
      [] c.op = "ReplaceInFile" ->
            \E i \in 1..Len(c.replacement) :
                \A j \in 1..Len(f[c.path].data) : f[c.path].data[j] # c.replacement[i]
      [] OTHER -> TRUE

RECURSIVE AllRestorable(_, _)
AllRestorable(cs, f) ==
    \/ cs = <<>>
    \/ /\ Restorable(Head(cs), f)
       /\ AllRestorable(Tail(cs), Effect(Head(cs), f))

C2_ExecuteStopsAtFirstFailure ==
    last_op = "execute" =>
        /\ Len(attempted) <= Len(changeset)
        /\ \A i \in 1..Len(attempted) : attempted[i] = i
        /\ eresult = "Ok" => Len(attempted) = Len(changeset)
        /\ eresult = "Err" =>
            /\ estate = "Failed"
            /\ Len(attempted) >= 1
        /\ Len(applied) = NApplied
        /\ \A i \in 1..NApplied : applied[i].change = changeset[i]
        /\ fs = EffectAll(ExecutedPrefix, fs0)

\* C2's case: execute failed on a Change and left unapplied a later Change
\* that the filesystem would have taken.
C2_Witness ==
    /\ last_op = "execute"
    /\ eresult = "Err"
    /\ Len(attempted) < Len(changeset)
    /\ CanApply(changeset[Len(attempted) + 1], fs)
    /\ fs = fs0

\* C3: revert tries the inverse of every applied Change, last applied first,
\* also after an inverse has failed, and returns an error exactly when some
\* inverse failed.
C3_RevertBestEffort ==
    last_op = "revert" =>
        /\ Len(rattempted) = Len(reverted)
        /\ \A i \in 1..Len(rattempted) : rattempted[i] = Len(reverted) - i + 1
        /\ rfailed \subseteq 1..Len(reverted)
        /\ rresult = (IF rfailed = {} THEN "Ok" ELSE "Err")
        /\ applied = Keep(reverted, rfailed)

\* C3's case: an inverse failed and the inverse of an earlier Change was still
\* applied.
C3_Witness ==
    /\ last_op = "revert"
    /\ rresult = "Err"
    /\ \E i \in rfailed : \E j \in 1..(i - 1) : j \notin rfailed /\ fs # EffectAll(ExecutedPrefix, fs0)
    /\ Len(reverted) = NApplied


\* C15: revert on an engine whose applied list is empty (a fresh engine, or
\* one right after a successful revert) changes nothing on the filesystem and
\* returns Ok.
C15_RevertOnIdleIsNoOp ==
    [][(applied = <<>> /\ last_op' = "revert") =>
            (fs' = fs /\ rresult' = "Ok" /\ applied' = <<>> /\ estate' \in {estate, "Idle"})]_vars

\* C15's case: revert was called again after a revert had undone an execute
\* that applied a Change.
C15_Witness ==
    /\ last_op = "revert"
    /\ reverted = <<>>
    /\ rresult = "Ok"
    /\ NApplied >= 1
    /\ fs = fs0

\* The paths a Change reads or writes.
Touches(c) ==
    CASE c.op \in {"RenameFile", "CopyFile"} -> {c.from, c.to}
      [] OTHER -> {c.path}

\* The positions of the executed prefix whose Change is destructive and
\* touches p.
DestructiveOn(p) ==
    {i \in 1..NApplied : changeset[i].op \in Destructive /\ changeset[i].path = p}

\* The filesystem each Change of the executed prefix found.
FsBefore(i) == EffectAll(SubSeq(changeset, 1, i - 1), fs0)

\* The positions of the executed prefix whose Change is destructive, in
\* order.
RECURSIVE DestructiveUpTo(_)
DestructiveUpTo(n) ==
    IF n = 0 THEN <<>>
    ELSE DestructiveUpTo(n - 1)
         \o (IF changeset[n].op \in Destructive THEN <<n>> ELSE <<>>)

\* C17: the destructive Changes of a changeset, also those on one path, each
\* have a backup entry under a name of its own; every entry keeps the contents
\* its Change found and is the one its name gives back (none is overwritten);
\* and when only destructive Changes touched a path, a revert that reports no
\* failure leaves the path with the contents it had before the first of them.
C17_BackupsAreUnique ==
    LET d == DestructiveUpTo(NApplied) IN
    /\ \A i, j \in 1..Len(backups) : i # j => backups[i].key # backups[j].key
    /\ Len(backups) = Len(d)
    /\ \A k \in 1..Len(d) :
            /\ backups[k].path = changeset[d[k]].path
            /\ backups[k].data = FsBefore(d[k])[backups[k].path].data
            /\ Staged(backups, backups[k].key) = backups[k]
    /\ (RevertedWhole /\ rresult = "Ok") =>
        \A p \in FilePaths :
            (\A i \in 1..NApplied : p \in Touches(changeset[i]) => i \in DestructiveOn(p))
                => fs[p] = fs0[p]

\* C17's case: two destructive Changes on one path were executed, the second
\* finding other contents than the first, and reverted.
C17_Witness ==
    /\ RevertedWhole /\ rresult = "Ok"
    /\ \E p \in FilePaths : \E i, j \in DestructiveOn(p) :
            /\ i < j
            /\ FsBefore(i)[p] # FsBefore(j)[p]
            /\ fs[p] = fs0[p]


\* Execute applied one Change, a ReplaceInFile, and revert applied its
\* inverse.
ReplacedAndReverted ==
    /\ RevertedWhole /\ rresult = "Ok"
    /\ NApplied = 1
    /\ changeset[1].op = "ReplaceInFile"

\* C20 as stated: a ReplaceInFile applied to a file in which the replacement
\* does not occur, followed by its inverse, restores the file's contents.
C20_ReplaceRoundTripWhenNovel ==
    (/\ ReplacedAndReverted
     /\ ~Occurs(changeset[1].replacement, fs0[changeset[1].path].data))
        => fs[changeset[1].path] = fs0[changeset[1].path]

\* C20 as amended: a ReplaceInFile applied to a file in which some character
\* of the replacement does not occur, followed by its inverse, restores the
\* file's contents.
C20_ReplaceRoundTrip ==
    (ReplacedAndReverted /\ Restorable(changeset[1], fs0))
        => fs[changeset[1].path] = fs0[changeset[1].path]

\* C20's case: the replacement changed the file and the inverse brought the
\* contents back.
C20_Witness ==
    /\ ReplacedAndReverted /\ Restorable(changeset[1], fs0)
    /\ Len(changeset[1].replacement) > 1
    /\ EffectAll(ExecutedPrefix, fs0) # fs0
    /\ fs = fs0


(***************************************************************************)
(* Properties of the workflows                                             *)
(***************************************************************************)
\* The workflow's engine.execute returned an error.
ExecuteFailed == engine.executes > 0 /\ engine.state # "Committed"
Returned == pc = "returned"
Untouched == disk = InitialDisk

\* C4 as stated: whenever execute returned an error, revert has been called
\* on the same engine by the time the workflow returns.
C4_AlwaysRevertsAfterFailedExecute ==
    (Returned /\ ExecuteFailed) => engine.reverts >= 1

\* C4 as amended: whenever execute returned an error, revert has been called
\* once on the same engine, from its Failed state, by the time the workflow
\* returns; except in the interactive project workflow, which calls it exactly
\* when the user confirms the revert.
C4_RevertsAfterFailedExecute ==
    (Returned /\ ExecuteFailed) =>
        IF wf = "start_rename_project_workflow" /\ confirmed # "yes"
        THEN engine.reverts = 0
        ELSE engine.reverts = 1 /\ engine.reverted_from = "Failed"

\* C4's case: the plugin workflow returned after a failed execute.
C4_Witness ==
    /\ Returned /\ ExecuteFailed
    /\ wf = "rename_plugin"
    /\ engine.reverts = 1

\* C5: a rename workflow function returns an error whenever execute failed,
\* also when the revert succeeded, and Ok only when execute succeeded.
C5_FailedExecuteReturnsErr ==
    (Returned /\ wf \in {"rename_project", "rename_plugin", "rename_target"}) =>
        /\ ExecuteFailed => result.kind = "Err"
        /\ result.kind = "Ok" => engine.state = "Committed"

\* C6: the process exits with code 0 exactly when the requested workflow
\* succeeded.
C6_ExitCodeZeroIffSuccess ==
    (wf = "main" /\ pc \in {"returned", "panicked"}) =>
        (exit_code = 0 <=> engine.state = "Committed")

\* The request asks for the name the project has.
SameNameRequested ==
    \/ /\ wf = "rename_project"
       /\ params.new_name \in InitialDisk[params.project_root].descriptors
    \/ /\ wf = "start_rename_project_workflow"
       /\ context # NoContext
       /\ context.target_name = context.project_name

\* C7: renaming a project to its current name is rejected with "new name must
\* be different than current project name" before anything on disk changes,
\* through the direct API and through the interactive workflow (an I/O error
\* on reading the project root may be returned instead).
C7_SameNameRejected ==
    SameNameRequested =>
        /\ Untouched
        /\ engine.executes = 0
        /\ Returned =>
            result \in {Err("new name must be different than current project name"),
                        Err("io")}

\* The Params name no project with a Source directory, or an entity that is
\* not among the probed ones.
InvalidParams ==
    LET project == InitialDisk[params.project_root] IN
    \/ ~project.is_dir
    \/ project.descriptors = {}
    \/ ~project.source
    \/ wf = "rename_plugin" /\ params.entity \notin project.plugins
    \/ wf = "rename_target" /\ params.entity \notin project.targets

\* C8: the plugin and target workflows, called with Params that name no
\* project, no Source directory or no probed entity, return a validation
\* error, do not panic and change nothing on disk.
C8_InvalidParamsRejected ==
    (wf \in {"rename_plugin", "rename_target"} /\ InvalidParams) =>
        /\ pc # "panicked"
        /\ Untouched
        /\ engine.executes = 0
        /\ Returned => result.kind = "Err"

\* An Identifier: not empty, letters, digits and underscores only, within
\* the cap.
IsIdentifier(name, cap) ==
    /\ name # <<>>
    /\ \A i \in 1..Len(name) : name[i] \in Alnum \cup {"_"}
    /\ Len(name) <= cap

NameCap ==
    CASE wf \in ProjectWorkflows -> ProjectNameMaxLen
      [] wf \in PluginWorkflows -> PluginNameMaxLen
      [] OTHER -> TargetNameMaxLen

\* C9: a request whose new name is no valid Identifier is rejected with a
\* validation error before anything on disk changes, also through the
\* Params API.
C9_InvalidNameRejected ==
    (wf \in {"rename_project", "rename_plugin", "rename_target"}
        /\ ~IsIdentifier(params.new_name, NameCap)) =>
        /\ Untouched
        /\ engine.executes = 0
        /\ Returned => result.kind = "Err"

\* The entities of the request's class on disk when the workflow started.
ExistingEntities(project_root) ==
    IF wf \in PluginWorkflows THEN InitialDisk[project_root].plugins
    ELSE InitialDisk[project_root].targets

\* C10: a new name equal to the name of an existing plugin (target) is
\* rejected, asked interactively or passed as Params, so that no changeset is
\* executed for a colliding name.
C10_CollidingNameRejected ==
    /\ (wf \in PluginWorkflows \cup TargetWorkflows /\ engine.executes > 0) =>
            context.target_name \notin ExistingEntities(context.project_root)
    /\ (wf \in {"rename_plugin", "rename_target"}
            /\ params.project_root \in AcceptedRoots(TRUE)
            /\ params.new_name \in ExistingEntities(params.project_root)) =>
            /\ engine.executes = 0
            /\ Returned => result.kind = "Err"

\* C11: rename_target builds its Context from the Params it was given and
\* asks the user nothing: the Context's root, target and new name are the
\* Params' ones, and no prompt error can come back.
C11_TargetContextFromParams ==
    wf = "rename_target" =>
        /\ context # NoContext =>
            /\ context.project_root = params.project_root
            /\ context.entity = params.entity
            /\ context.target_name = params.new_name
        /\ result # Err("prompt")

(***************************************************************************)
(* Properties of the command line                                          *)
(***************************************************************************)
\* The indices of the arguments in command/option position: every argument
\* after the program name that is not the value of a value-taking option
\* before it.
RECURSIVE PositionsFrom(_, _)
PositionsFrom(a, i) ==
    IF i > Len(a) THEN {}
    ELSE {i} \cup PositionsFrom(a, IF a[i] \in ValueOptions THEN i + 2 ELSE i + 1)
Positions(a) == PositionsFrom(a, 2)

Least(S) == CHOOSE i \in S : \A j \in S : i <= j

\* The subcommands and the options an argument list specifies.
GivenSubcommands(a) == {i \in Positions(a) : a[i] \in Subcommands}
GivenOptions(a) == {a[i] : i \in {j \in Positions(a) : a[j] \in ValueOptions \cup FlagOptions}}

\* The options of each command.
OptionsOf(command) ==
    CASE command = "RenameProject" -> {"--project", "--new-name"}
      [] command = "RenamePlugin" -> {"--project", "--new-name", "--plugin"}
      [] command = "RenameTarget" -> {"--project", "--new-name", "--target"}
      [] command = "RenameModule" -> {"--project", "--new-name", "--module"}
      [] command = "Wizard" -> {}

\* C12: when parse_args returns Ok, the option keys are exactly those of the
\* command (a non-empty set of --help and --version without a command); and
\* an argument list that gives one command and lacks one of its options, or
\* brings an option of another command, makes parse_args return Err.
C12_OptionsMatchCommand ==
    cli_pc # "start" =>
        /\ parsed.kind = "Ok" =>
            IF parsed.command = NoCommand
            THEN DOMAIN parsed.options # {} /\ DOMAIN parsed.options \subseteq FlagOptions
            ELSE DOMAIN parsed.options = OptionsOf(parsed.command)
        /\ \A i \in GivenSubcommands(args) :
                GivenOptions(args) # OptionsOf(from_str(args[i])) => parsed.kind = "Err"

\* C12's case: a rename-plugin command line with its three options parsed.
C12_Witness ==
    /\ parsed.kind = "Ok"
    /\ parsed.command = "RenamePlugin"
    /\ parsed.options["--plugin"] = <<"Codex">>

\* C13: parse_args returns Err whenever the arguments give more than one
\* subcommand, or the same value-taking option more than once, among the
\* arguments that are not the value of an option before them.
C13_RepeatsRejected ==
    (/\ cli_pc # "start"
     /\ \/ Cardinality(GivenSubcommands(args)) > 1
        \/ \E i, j \in Positions(args) :
                i # j /\ args[i] = args[j] /\ args[i] \in ValueOptions)
        => parsed.kind = "Err"

\* C13's case: the second --project of a rename-project command line was
\* refused.
C13_Witness ==
    /\ parsed.kind = "Err"
    /\ parsed.command = "RenameProject"
    /\ parsed.msg = <<"option cannot be specified more than once", "--project">>

\* The arguments parse_args cannot take where they stand: an unknown one, or
\* a value-taking option that is the last argument.
Offending(a) ==
    {i \in Positions(a) :
        \/ a[i] \notin Subcommands \cup ValueOptions \cup FlagOptions
        \/ a[i] \in ValueOptions /\ i = Len(a)}

\* The subcommand read before argument i.
SubcommandBefore(a, i) ==
    LET before == {j \in GivenSubcommands(a) : j < i} IN
    IF before = {} THEN NoCommand ELSE from_str(a[Least(before)])

\* The arguments that end the parse: the offending ones, a second subcommand,
\* a value-taking option given before. The first of them is where the parse
\* stops.
Refused(a) ==
    Offending(a)
    \cup {i \in GivenSubcommands(a) : \E j \in GivenSubcommands(a) : j < i}
    \cup {i \in Positions(a) :
            a[i] \in ValueOptions /\ \E j \in Positions(a) : j < i /\ a[j] = a[i]}
Stop(a) == Least(Refused(a))

\* C14 as stated: whenever an argument in command/option position is unknown,
\* or a value-taking option is the last argument, parse_args returns Err and
\* the error carries the subcommand read up to where the parse stopped.
C14_OffendingRejectedWithCommand ==
    (cli_pc # "start" /\ Offending(args) # {}) =>
        /\ parsed.kind = "Err"
        /\ parsed.command = SubcommandBefore(args, Stop(args))

\* C14 as amended: whenever an argument in command/option position is
\* unknown, or a value-taking option is the last argument, parse_args returns
\* Err; the error carries the subcommand read up to where the parse stopped,
\* unless it stopped at a second subcommand, and then it carries none.
C14_OffendingRejected ==
    (cli_pc # "start" /\ Offending(args) # {}) =>
        /\ parsed.kind = "Err"
        /\ parsed.command =
            (IF args[Stop(args)] \in Subcommands THEN NoCommand
             ELSE SubcommandBefore(args, Stop(args)))

\* C14's case: an unknown argument after a subcommand, and an option left
\* without its value after a subcommand.
C14_Witness ==
    /\ parsed.kind = "Err"
    /\ parsed.command = "RenamePlugin"
    /\ parsed.msg = <<"missing argument for option", "--plugin">>

\* The workflow of each rename subcommand and the option that names its
\* entity.
WorkflowOf(command) ==
    CASE command = "RenameProject" -> "rename_project"
      [] command = "RenamePlugin" -> "rename_plugin"
      [] command = "RenameTarget" -> "rename_target"
      [] command = "RenameModule" -> "rename_module"
EntityOf(command, options) ==
    CASE command = "RenameProject" -> "-"
      [] command = "RenamePlugin" -> options["--plugin"][1]
      [] command = "RenameTarget" -> options["--target"][1]
      [] command = "RenameModule" -> options["--module"][1]

\* C19: a command line that parses to a rename subcommand runs exactly one
\* workflow, the one of that subcommand, with the project root, the entity
\* and the new name taken from the options.
C19_RunsTheWorkflowOfTheSubcommand ==
    (/\ cli_pc = "done"
     /\ parsed.kind = "Ok"
     /\ parsed.command \in {"RenameProject", "RenamePlugin", "RenameTarget", "RenameModule"})
        => ran = <<Started(WorkflowOf(parsed.command),
                           parsed.options["--project"][1],
                           EntityOf(parsed.command, parsed.options),
                           parsed.options["--new-name"][1])>>

\* C16: in every run of a workflow its Engine executes at most one changeset,
\* and revert is called on it only after the execute returned an error, the
\* engine being Failed, never on an idle or committed engine.
C16_EngineIsSingleShot ==
    /\ engine.executes <= 1
    /\ engine.reverts <= 1
    /\ engine.reverts > 0 => (engine.executes = 1 /\ engine.reverted_from = "Failed")
    /\ engine.state = "Committed" => engine.reverts = 0

\* C16's case: the command line entry point reverted its engine after a
\* failed execute.
C16_Witness ==
    /\ wf = "main"
    /\ Returned
    /\ engine.executes = 1
    /\ engine.reverts = 1
    /\ engine.reverted_from = "Failed"

\* The revert the workflow called returned an error.
RevertFailed == engine.reverts > 0 /\ engine.state = "Failed"

\* What of the two errors the workflow returned or printed.
ExecuteErrorReported ==
    \/ result = Err("execute")
    \/ \E i \in 1..Len(log) : log[i] \in {"execute error", "error while renaming project"}
RevertErrorReported ==
    \/ result = Err("revert")
    \/ \E i \in 1..Len(log) : log[i] = "error while reverting"

\* C18: when execute fails and the revert after it fails too, the workflow
\* reports both errors, returned or logged; neither is dropped.
C18_BothErrorsReported ==
    (Returned /\ ExecuteFailed /\ RevertFailed) =>
        (ExecuteErrorReported /\ RevertErrorReported)

(***************************************************************************)
(* Properties of the new-name prompt                                       *)
(***************************************************************************)
Submitted == verdict # NotSubmitted
Accepted == verdict = Valid

PromptCap ==
    CASE prompt = "project" -> ProjectNameMaxLen
      [] prompt = "plugin" -> PluginNameMaxLen
      [] OTHER -> TargetNameMaxLen

\* The names the prompt's uniqueness validator was given.
PromptEntities ==
    CASE prompt = "plugin" -> detect_project_plugins(PromptRoot)
      [] prompt = "target" -> detect_project_targets(PromptRoot)
      [] OTHER -> {}

ValidatorMessages ==
    {not_empty_message, concise_message(ProjectNameMaxLen),
     concise_message(PluginNameMaxLen), identifier_message,
     plugin_conflict_message, target_conflict_message}

\* Every validator of the chain answered Valid or Invalid with one of the
\* messages of the source.
AnswersAreValidations ==
    \A i \in 1..Len(Validators(prompt, candidate)) :
        \/ Validators(prompt, candidate)[i] = Valid
        \/ \E m \in ValidatorMessages : Validators(prompt, candidate)[i] = Invalid(m)

\* C21 as stated: the chain of validators of the new-name prompt accepts the
\* submitted text exactly when it is an Identifier (not empty, ASCII letters,
\* digits and underscores only, at most 20 characters for a project and 30
\* for a plugin or a target), and every validator answers Valid or Invalid
\* with a message.
C21_AcceptsExactlyIdentifiers ==
    Submitted =>
        /\ AnswersAreValidations
        /\ Accepted <=> IsIdentifier(candidate, PromptCap)

\* C21: the chain of validators of the new-name prompt accepts the submitted
\* text exactly when it is an Identifier within the cap of the prompt (20 for
\* a project, 30 for a plugin or a target) that, at the plugin and target
\* prompts, is not the name of an existing plugin or target of the project;
\* every validator answers Valid or Invalid with a message.
C21_AcceptsExactlyUnusedIdentifiers ==
    Submitted =>
        /\ AnswersAreValidations
        /\ Accepted <=> (/\ IsIdentifier(candidate, PromptCap)
                         /\ candidate \notin PromptEntities)

\* A name of exactly 30 characters was accepted at the plugin prompt.
C21_Witness ==
    /\ prompt = "plugin"
    /\ Accepted
    /\ Len(candidate) = PluginNameMaxLen

(***************************************************************************)
(* Properties of the wizard session                                        *)
(***************************************************************************)
ErrorLogged == \E i \in 1..Len(session_log) : session_log[i].level = "error"
ThanksLogged == \E i \in 1..Len(session_log) : session_log[i] = Thanks
Affirmations == {i \in 1..Len(answers) : answers[i] = "yes"}
Declined == answers # <<>> /\ answers[Len(answers)] # "yes"

\* C22: the wizard session runs workflows one after another; it has ended
\* once the workflow selection or a workflow returned an error and once the
\* user did not affirm starting a new workflow (a failed confirmation prompt
\* counts as no); every workflow after the first was started after an
\* affirmative answer; "Thanks for using Renom." is logged exactly when the
\* session ended through the confirmation, never with an error.
C22_SessionEndsOnErrorOrRefusal ==
    session # "idle" =>
        /\ ErrorLogged => session = "ended"
        /\ Declined => session = "ended"
        /\ session = "ended" => (ErrorLogged \/ Declined)
        /\ \A i \in 1..(Len(answers) - 1) : answers[i] = "yes"
        /\ Len(started) <= 1 + Cardinality(Affirmations)
        /\ Len(answers) <= Len(started)
        /\ ThanksLogged <=> Declined
        /\ ThanksLogged =>
            /\ ~ErrorLogged
            /\ session_log[Len(session_log)] = Thanks

\* Two workflows ran and the second confirmation prompt failed: the session
\* ended with the closing message.
C22_Witness ==
    /\ session = "ended"
    /\ Len(started) = 2
    /\ answers = <<"yes", "failed">>
    /\ ThanksLogged

====
